---- MODULE Spec2Model ----
(***************************************************************************)
(* Model of the request-dispatch core of the gateway, src/proxy/proxy.go:  *)
(* Proxy.ReverseProxyHandler (the coordinator), Proxy.doProxy (one         *)
(* candidate's dispatch) and Proxy.writeResult.                            *)
(*                                                                         *)
(* One behaviour is one inbound request.  A candidate is a                 *)
(* model.RouteResult.  Byte strings are modelled as sequences of tokens,   *)
(* so writing to the caller-facing body is sequence concatenation.         *)
(***************************************************************************)
EXTENDS Integers, Sequences, FiniteSets, TLC

\* ------------------------------------------------------------------ bounds

\* The longest candidate list the resolver returns.
MaxCandidates == 2

\* ------------------------------------------------------- program constants

StatusOK == 200
StatusServiceUnavailable == 503
StatusInternalServerError == 500

ErrPrefixRequestCancel == <<"request canceled">>
ErrNoServer == <<"has no server">>
HeaderContentType == "Content-Type"
MergeContentType == "application/json; charset=utf-8"
MergeRemoveHeaders == <<"Content-Length", "Content-Type", "Date">>

\* ----------------------------------------------------------- input domains

\* A nil error; every real error has a non-empty text.
NilErr == <<>>

\* Error texts the backend transport may return.  The first starts with the
\* cancellation prefix, the last only contains it.
TransportErrors ==
    { <<"request canceled", " while waiting for connection">>,
      <<"dial tcp: i/o timeout">>,
      <<"upstream: ", "request canceled">> }

\* Status codes a backend may answer with.
BackendStatuses == {200, 404, 500, 502}

\* Status codes a filter may stop the chain with, and the error it returns.
FilterCodes == {403, 429}
FilterErr == <<"filter rejected">>

\* Attribution name, target path and response body of the candidate at each
\* position of the resolver's list.
AttrNames == <<"a", "b", "c", "d", "e">>
NodeURLs == <<"/svc/a", "/svc/b", "/svc/c", "/svc/d", "/svc/e">>
Bodies == <<"{\"x\":1}", "{\"y\":2}", "[3]", "null", "true">>

\* The inbound request and the replacement GetRealPath may compute.
InboundPath == "/api/users"
InboundQuery == "id=7"
InboundHost == "gateway"
RealPath == "/v2/users?id=7&full=1"
SvrAddr == "10.0.0.1:8080"

\* ------------------------------------------------------------ data model

\* A nil *fasthttp.Response.
NilRes == [present |-> FALSE, status |-> 0, header |-> <<>>, body |-> ""]

\* The response object the transport hands back together with an error: it
\* carries no backend status, headers or body.
EmptyRes == [present |-> TRUE, status |-> 0, header |-> <<>>, body |-> ""]

\* Headers of the backend response of candidate i.
BackendHeaders(i) ==
    << <<"Content-Length", "7">>,
       <<"Content-Type", "text/plain">>,
       <<"X-Backend", AttrNames[i]>>,
       <<"Date", "Sun, 01 Jan 2017 00:00:00 GMT">> >>

BackendResponse(i, s) ==
    [present |-> TRUE, status |-> s, header |-> BackendHeaders(i),
     body |-> Bodies[i]]

\* A freshly resolved candidate (model.RouteResult) at position i.
NewResult(i, svr) ==
    [Svr |-> svr, AttrName |-> AttrNames[i], URL |-> NodeURLs[i],
     Merge |-> FALSE, Err |-> NilErr, Code |-> 0, Res |-> NilRes]

\* What routeTable.Select may return: nil/empty, or up to MaxCandidates
\* candidates, each with or without a server.
CandidateLists ==
    UNION { { [i \in 1..n |-> NewResult(i, svrs[i])] :
                svrs \in [1..n -> BOOLEAN] } : n \in 0..MaxCandidates }

\* No outbound request (doProxy's local does not exist).
NoRequest == [set |-> FALSE, uri |-> "", path |-> "", query |-> "", host |-> ""]

\* doProxy's rewrite locals while doProxy is not running.
NoRewrite == [need |-> FALSE, realPath |-> ""]

\* No filter has stopped the candidate's chain.
NoStop == [phase |-> "none", name |-> "", code |-> 0, err |-> NilErr]

\* copyRequest(&ctx.Request): the outbound request starts as a copy of the
\* inbound one.
copyRequest ==
    [set |-> TRUE, uri |-> "", path |-> InboundPath, query |-> InboundQuery,
     host |-> InboundHost]

VARIABLES
    filters,    \* p.filters: the registered filter chain
    results,    \* the candidates returned by routeTable.Select
    merge,      \* the handler's local `merge`
    hpc,        \* where ReverseProxyHandler is
    spawnIdx,   \* position of the spawn loop (lines 98-104)
    wg,         \* the sync.WaitGroup counter
    tpc,        \* where each candidate's doProxy is
    spawned,    \* whether doProxy of candidate i runs in its own goroutine
    outreq,     \* doProxy's local outbound request, per candidate
    trace,      \* history: the phases doProxy ran for each candidate
    released,   \* history: how many times result.Release() was called
    doneOrder,  \* history: the candidates in the order their doProxy returned
    rw,         \* doProxy's rewrite decision and local realPath, per candidate
    stops,      \* history: what the filter that stopped a candidate returned
    resReads,   \* history: the candidates whose Res the handler has read
    resp        \* the caller-facing response ctx.Response

vars == <<filters, results, merge, hpc, spawnIdx, wg, tpc, spawned, outreq,
          trace, released, doneOrder, rw, stops, resReads, resp>>

Idx == 1..Len(results)

\* ------------------------------------------------------------- header ops

\* ResponseHeader.Del(key): removes every entry with that name.
HeaderDel(h, key) == SelectSeq(h, LAMBDA e : e[1] # key)

RECURSIVE HeaderDelAll(_, _)
\* Lines 126-128: delete each of the given names in turn.
HeaderDelAll(h, keys) ==
    IF keys = <<>> THEN h
    ELSE HeaderDelAll(HeaderDel(h, Head(keys)), Tail(keys))

\* ResponseHeader.CopyTo(dst): fasthttp resets dst and then copies every
\* header of the source into it, so dst ends up holding exactly the source's
\* headers.
HeaderCopyTo(src, dst) == src

\* ResponseHeader.Add(key, value): appends one entry.
HeaderAdd(h, key, value) == Append(h, <<key, value>>)

\* strings.HasPrefix over token sequences.
HasPrefix(s, prefix) ==
    /\ Len(s) >= Len(prefix)
    /\ SubSeq(s, 1, Len(prefix)) = prefix

\* -------------------------------------------------------------- filters

\* What one filter does on one run: continue, or stop with a code and error.
FilterBehaviours ==
    { [stop |-> FALSE, code |-> 0, err |-> NilErr] } \cup
    { [stop |-> TRUE, code |-> c, err |-> FilterErr] : c \in FilterCodes }

RECURSIVE RunChain(_, _, _)
\* Runs the chain fs from position k in registration order; the first filter
\* that stops ends the run with its name, code and error.
RunChain(fs, beh, k) ==
    IF k > Len(fs) THEN [name |-> "", code |-> StatusOK, err |-> NilErr]
    ELSE IF beh[k].stop
         THEN [name |-> fs[k], code |-> beh[k].code, err |-> beh[k].err]
         ELSE RunChain(fs, beh, k + 1)

doPreFilters(beh) == RunChain(filters, beh, 1)
doPostFilters(beh) == RunChain(filters, beh, 1)

\* ------------------------------------------------------------------ Init

\* The caller-facing response before the handler touched it.
NewResponse == [status |-> 0, statusSets |-> 0, header |-> <<>>, body |-> <<>>]

Init ==
    /\ filters \in { <<>>, <<"access">>, <<"access", "analysis">> }
    /\ results = <<>>
    /\ merge = FALSE
    /\ hpc = "select"
    /\ spawnIdx = 0
    /\ wg = 0
    /\ tpc = <<>>
    /\ spawned = <<>>
    /\ outreq = <<>>
    /\ trace = <<>>
    /\ released = <<>>
    /\ doneOrder = <<>>
    /\ rw = <<>>
    /\ stops = <<>>
    /\ resReads = {}
    /\ resp = NewResponse

\* ------------------------------------------------- caller-facing response

\* ctx.SetStatusCode(code)
SetStatusCode(r, code) ==
    [r EXCEPT !.status = code, !.statusSets = @ + 1]

\* ctx.Write / ctx.WriteString: appends to the response body.
Write(r, bytes) == [r EXCEPT !.body = Append(@, bytes)]

\* A passthrough that answers 200 whatever the backend's status was.
writeResultOK(r, res) == Write(SetStatusCode(r, StatusOK), res.body)

\* Proxy.writeResult: backend status and raw body, nothing else.
writeResult(r, res) == Write(SetStatusCode(r, res.status), res.body)

\* result.Release()
Release(rel, i) == [rel EXCEPT ![i] = @ + 1]

\* ----------------------------------------------- ReverseProxyHandler, I

\* A handler that answers 200 when the resolver returns no candidate.
SelectEmptyOK ==
    /\ hpc = "select"
    /\ \E rs \in CandidateLists :
        LET n == Len(rs) IN
        /\ results' = rs
        /\ released' = [i \in 1..n |-> 0]
        /\ trace' = [i \in 1..n |-> <<>>]
        /\ outreq' = [i \in 1..n |-> NoRequest]
        /\ spawned' = [i \in 1..n |-> FALSE]
        /\ rw' = [i \in 1..n |-> NoRewrite]
        /\ stops' = [i \in 1..n |-> NoStop]
        /\ merge' = (n > 1)
        /\ IF n = 0
           THEN /\ resp' = SetStatusCode(resp, StatusOK)
                /\ hpc' = "done"
                /\ tpc' = <<>>
                /\ UNCHANGED <<wg, spawnIdx>>
           ELSE IF n > 1
           THEN /\ wg' = n
                /\ spawnIdx' = 1
                /\ hpc' = "spawn"
                /\ tpc' = [i \in 1..n |-> "idle"]
                /\ UNCHANGED resp
           ELSE /\ hpc' = "inline"
                /\ tpc' = [i \in 1..n |-> "start"]
                /\ UNCHANGED <<wg, spawnIdx, resp>>
    /\ UNCHANGED <<filters, doneOrder, resReads>>

\* Lines 84-96 and 107-108: resolve the candidates; none: 503 and return;
\* one: call doProxy inline with a nil WaitGroup; several: wg.Add(count) and
\* enter the spawn loop.
Select ==
    /\ hpc = "select"
    /\ \E rs \in CandidateLists :
        LET n == Len(rs) IN
        /\ results' = rs
        /\ released' = [i \in 1..n |-> 0]
        /\ trace' = [i \in 1..n |-> <<>>]
        /\ outreq' = [i \in 1..n |-> NoRequest]
        /\ spawned' = [i \in 1..n |-> FALSE]
        /\ rw' = [i \in 1..n |-> NoRewrite]
        /\ stops' = [i \in 1..n |-> NoStop]
        /\ merge' = (n > 1)
        /\ IF n = 0
           THEN /\ resp' = SetStatusCode(resp, StatusServiceUnavailable)
                /\ hpc' = "done"
                /\ tpc' = <<>>
                /\ UNCHANGED <<wg, spawnIdx>>
           ELSE IF n > 1
           THEN /\ wg' = n
                /\ spawnIdx' = 1
                /\ hpc' = "spawn"
                /\ tpc' = [i \in 1..n |-> "idle"]
                /\ UNCHANGED resp
           ELSE /\ hpc' = "inline"
                /\ tpc' = [i \in 1..n |-> "start"]
                /\ UNCHANGED <<wg, spawnIdx, resp>>
    /\ UNCHANGED <<filters, doneOrder, resReads>>

\* Lines 98-104, one iteration: set the candidate's Merge flag and start its
\* goroutine.
Spawn ==
    /\ hpc = "spawn"
    /\ LET i == spawnIdx IN
        /\ results' = [results EXCEPT ![i].Merge = merge]
        /\ tpc' = [tpc EXCEPT ![i] = "start"]
        /\ spawned' = [spawned EXCEPT ![i] = TRUE]
        /\ spawnIdx' = i + 1
        /\ hpc' = IF i = Len(results) THEN "wait" ELSE "spawn"
    /\ UNCHANGED <<filters, merge, wg, outreq, trace, released, doneOrder, rw,
                   stops, resReads, resp>>

\* A join that lets the handler go on as soon as one task has returned.
WaitForAny ==
    /\ hpc = "wait"
    /\ wg < Len(results)
    /\ hpc' = "scan"
    /\ UNCHANGED <<filters, results, merge, spawnIdx, wg, tpc, spawned,
                   outreq, trace, released, doneOrder, rw, stops, resReads, resp>>

\* Line 106: wg.Wait() returns once the counter is zero.
Wait ==
    /\ hpc = "wait"
    /\ wg = 0
    /\ hpc' = "scan"
    /\ UNCHANGED <<filters, results, merge, spawnIdx, wg, tpc, spawned,
                   outreq, trace, released, doneOrder, rw, stops, resReads, resp>>

\* Line 108: the inline call of doProxy returns.
InlineReturn ==
    /\ hpc = "inline"
    /\ tpc[1] = "done"
    /\ hpc' = "scan"
    /\ UNCHANGED <<filters, results, merge, spawnIdx, wg, tpc, spawned,
                   outreq, trace, released, doneOrder, rw, stops, resReads, resp>>

\* ---------------------------------------------------------------- doProxy

\* A return of doProxy that leaves the WaitGroup alone.
ReturnNoDone(i) ==
    /\ tpc' = [tpc EXCEPT ![i] = "done"]
    /\ wg' = wg
    /\ outreq' = [outreq EXCEPT ![i] = NoRequest]
    /\ rw' = [rw EXCEPT ![i] = NoRewrite]
    /\ doneOrder' = Append(doneOrder, i)

\* doProxy returns: the deferred wg.Done() runs when a WaitGroup was given,
\* and the local outbound request ceases to exist.
Return(i) ==
    /\ tpc' = [tpc EXCEPT ![i] = "done"]
    /\ wg' = IF spawned[i] THEN wg - 1 ELSE wg
    /\ outreq' = [outreq EXCEPT ![i] = NoRequest]
    /\ rw' = [rw EXCEPT ![i] = NoRewrite]
    /\ doneOrder' = Append(doneOrder, i)

\* Lines 168-181: the outbound request after the URL change.
Rewrite(req, r, needRewrite, realPath) ==
    IF needRewrite
    THEN IF realPath # ""
         THEN [req EXCEPT !.uri = realPath, !.host = SvrAddr]
         ELSE req
    ELSE [req EXCEPT !.path = r.URL]

\* Lines 168-170: what result.NeedRewrite() answers and, when it answers
\* true, what result.GetRealPath computes (empty or a replacement); realPath
\* does not exist otherwise.
RewriteDecisions ==
    { [need |-> FALSE, realPath |-> ""] } \cup
    { [need |-> TRUE, realPath |-> p] : p \in {"", RealPath} }

\* A dispatcher whose early return for a missing server skips wg.Done().
doProxyEnterNoDone(i) ==
    /\ tpc[i] = "start"
    /\ IF ~results[i].Svr
       THEN /\ results' = [results EXCEPT ![i].Err = ErrNoServer,
                                          ![i].Code = StatusServiceUnavailable]
            /\ tpc' = [tpc EXCEPT ![i] = "done"]
            /\ doneOrder' = Append(doneOrder, i)
            /\ UNCHANGED <<wg, outreq, rw, trace, stops>>
       ELSE /\ \E d \in RewriteDecisions :
                /\ rw' = [rw EXCEPT ![i] = d]
                /\ outreq' = [outreq EXCEPT
                      ![i] = Rewrite(copyRequest, results[i], d.need, d.realPath)]
            /\ tpc' = [tpc EXCEPT ![i] = "pre"]
            /\ UNCHANGED <<results, wg, trace, doneOrder, stops>>
    /\ UNCHANGED <<filters, merge, hpc, spawnIdx, spawned, released, resReads,
                   resp>>

\* A dispatcher that answers the caller itself when there is no server.
doProxyEnterWritesStatus(i) ==
    /\ tpc[i] = "start"
    /\ IF ~results[i].Svr
       THEN /\ results' = [results EXCEPT ![i].Err = ErrNoServer,
                                          ![i].Code = StatusServiceUnavailable]
            /\ resp' = SetStatusCode(resp, StatusServiceUnavailable)
            /\ Return(i)
            /\ UNCHANGED <<trace, stops>>
       ELSE /\ \E d \in RewriteDecisions :
                /\ rw' = [rw EXCEPT ![i] = d]
                /\ outreq' = [outreq EXCEPT
                      ![i] = Rewrite(copyRequest, results[i], d.need, d.realPath)]
            /\ tpc' = [tpc EXCEPT ![i] = "pre"]
            /\ UNCHANGED <<results, wg, trace, doneOrder, stops, resp>>
    /\ UNCHANGED <<filters, merge, hpc, spawnIdx, spawned, released, resReads>>

\* Lines 153-189: no server: record ErrNoServer/503 and return; otherwise
\* build the outbound request and the filter context.
doProxyEnter(i) ==
    /\ tpc[i] = "start"
    /\ IF ~results[i].Svr
       THEN /\ results' = [results EXCEPT ![i].Err = ErrNoServer,
                                          ![i].Code = StatusServiceUnavailable]
            /\ Return(i)
            /\ UNCHANGED <<trace, stops>>
       ELSE /\ \E d \in RewriteDecisions :
                /\ rw' = [rw EXCEPT ![i] = d]
                /\ outreq' = [outreq EXCEPT
                      ![i] = Rewrite(copyRequest, results[i], d.need, d.realPath)]
            /\ tpc' = [tpc EXCEPT ![i] = "pre"]
            /\ UNCHANGED <<results, wg, trace, doneOrder, stops>>
    /\ UNCHANGED <<filters, merge, hpc, spawnIdx, spawned, released, resReads,
                   resp>>

\* The record of a chain run that a filter stopped in the given phase.
Stopped(phase, r) ==
    [phase |-> phase, name |-> r.name, code |-> r.code, err |-> r.err]

\* Pre filters whose stop is recorded but not followed by a return: the
\* dispatch goes on to the backend call.
doProxyPreFiltersNoReturn(i) ==
    /\ tpc[i] = "pre"
    /\ \E beh \in [1..Len(filters) -> FilterBehaviours] :
        LET r == doPreFilters(beh) IN
        /\ trace' = [trace EXCEPT ![i] = Append(@, "pre")]
        /\ stops' = IF r.err # NilErr
                    THEN [stops EXCEPT ![i] = Stopped("pre", r)]
                    ELSE stops
        /\ results' = IF r.err # NilErr
                      THEN [results EXCEPT ![i].Err = r.err, ![i].Code = r.code]
                      ELSE results
        /\ tpc' = [tpc EXCEPT ![i] = "call"]
        /\ UNCHANGED <<wg, outreq, doneOrder, rw>>
    /\ UNCHANGED <<filters, merge, hpc, spawnIdx, spawned, released, resReads,
                   resp>>

\* Lines 191-200: the pre filters; a stop records the filter's error and
\* code and returns, otherwise the backend call starts.
doProxyPreFilters(i) ==
    /\ tpc[i] = "pre"
    /\ \E beh \in [1..Len(filters) -> FilterBehaviours] :
        LET r == doPreFilters(beh) IN
        /\ trace' = [trace EXCEPT ![i] = Append(@, "pre")]
        /\ IF r.err # NilErr
           THEN /\ stops' = [stops EXCEPT ![i] = Stopped("pre", r)]
                /\ results' = [results EXCEPT ![i].Err = r.err,
                                              ![i].Code = r.code]
                /\ Return(i)
           ELSE /\ tpc' = [tpc EXCEPT ![i] = "call"]
                /\ UNCHANGED <<results, wg, outreq, doneOrder, rw, stops>>
    /\ UNCHANGED <<filters, merge, hpc, spawnIdx, spawned, released, resReads,
                   resp>>

\* What fastHTTPClient.Do may return for candidate i: a backend response
\* with some status, or a transport error with or without a response object.
BackendOutcomes(i) ==
    { [res |-> BackendResponse(i, s), err |-> NilErr] : s \in BackendStatuses }
    \cup
    { [res |-> r, err |-> e] : r \in {NilRes, EmptyRes}, e \in TransportErrors }

\* A failure test that looks at the transport error only.
IsFailureErrOnly(o) == o.err # NilErr

\* Lines 206-215: whether the call counts as failed, and the code recorded.
IsFailure(o) == o.err # NilErr \/ o.res.status >= StatusInternalServerError

\* A classification without the 503 default for transport errors.
ResCodeNoDefault(o) == IF o.err # NilErr THEN 0 ELSE o.res.status

ResCode(o) == IF o.err # NilErr THEN StatusServiceUnavailable ELSE o.res.status

\* A cancellation test that looks for the text anywhere in the error instead
\* of at its start.
RunsPostErrContains(o) ==
    o.err = NilErr \/
    ~\E k \in 1..Len(o.err) : <<o.err[k]>> = ErrPrefixRequestCancel

\* Line 217: the post-error filters run unless the error is a cancellation.
RunsPostErr(o) ==
    o.err = NilErr \/ ~HasPrefix(o.err, ErrPrefixRequestCancel)

\* Line 221: the error recorded on the candidate after a failed call.
FailureErr(o) == o.err

\* Lines 201-226: the backend call returns; its response is stored on the
\* candidate; a failure runs the post-error filters (unless cancelled),
\* records error and code and returns.
doProxyBackendReturn(i) ==
    /\ tpc[i] = "call"
    /\ \E o \in BackendOutcomes(i) :
        IF IsFailure(o)
        THEN /\ trace' = [trace EXCEPT ![i] =
                    IF RunsPostErr(o) THEN @ \o <<"call", "posterr">>
                    ELSE Append(@, "call")]
             /\ results' = [results EXCEPT ![i].Res = o.res,
                                           ![i].Err = FailureErr(o),
                                           ![i].Code = ResCode(o)]
             /\ Return(i)
        ELSE /\ trace' = [trace EXCEPT ![i] = Append(@, "call")]
             /\ results' = [results EXCEPT ![i].Res = o.res]
             /\ tpc' = [tpc EXCEPT ![i] = "post"]
             /\ UNCHANGED <<wg, outreq, doneOrder, rw>>
    /\ UNCHANGED stops
    /\ UNCHANGED <<filters, merge, hpc, spawnIdx, spawned, released, resReads,
                   resp>>

\* Post filters whose stop is observed but not recorded on the candidate.
doProxyPostFiltersIgnoreStop(i) ==
    /\ tpc[i] = "post"
    /\ \E beh \in [1..Len(filters) -> FilterBehaviours] :
        LET r == doPostFilters(beh) IN
        /\ trace' = [trace EXCEPT ![i] = Append(@, "post")]
        /\ stops' = IF r.err # NilErr
                    THEN [stops EXCEPT ![i] = Stopped("post", r)]
                    ELSE stops
        /\ Return(i)
    /\ UNCHANGED <<filters, results, merge, hpc, spawnIdx, spawned, released,
                   resReads, resp>>

\* Lines 228-237: the post filters; a stop records the filter's error and
\* code; doProxy returns either way.
doProxyPostFilters(i) ==
    /\ tpc[i] = "post"
    /\ \E beh \in [1..Len(filters) -> FilterBehaviours] :
        LET r == doPostFilters(beh) IN
        /\ trace' = [trace EXCEPT ![i] = Append(@, "post")]
        /\ results' = IF r.err # NilErr
                      THEN [results EXCEPT ![i].Err = r.err, ![i].Code = r.code]
                      ELSE results
        /\ stops' = IF r.err # NilErr
                    THEN [stops EXCEPT ![i] = Stopped("post", r)]
                    ELSE stops
        /\ Return(i)
    /\ UNCHANGED <<filters, merge, hpc, spawnIdx, spawned, released, resReads,
                   resp>>

\* ---------------------------------------------- ReverseProxyHandler, II

\* A result loop that tests the merge flag before the candidate's error.
ScanLoopWriteFirst(k) ==
    IF ~merge THEN [kind |-> "write", idx |-> k]
    ELSE LET errs == { i \in k..Len(results) : results[i].Err # NilErr }
         IN  IF errs = {} THEN [kind |-> "merge", idx |-> 0]
             ELSE [kind |-> "error",
                   idx |-> CHOOSE i \in errs : \A e \in errs : i <= e]

\* A coordinator that reports the erroring candidate whose task returned
\* first instead of the first one in the resolver's order.
ScanLoopFirstDone(k) ==
    LET errs == { i \in k..Len(results) : results[i].Err # NilErr }
        pos(i) == CHOOSE p \in 1..Len(doneOrder) : doneOrder[p] = i
    IN  IF errs # {}
        THEN [kind |-> "error",
              idx |-> CHOOSE i \in errs : \A j \in errs : pos(i) <= pos(j)]
        ELSE IF ~merge THEN [kind |-> "write", idx |-> k]
        ELSE [kind |-> "merge", idx |-> 0]

RECURSIVE ScanLoop(_)
\* Lines 111-123: walks the candidates in order and says where the loop
\* leaves the handler: at the first candidate with an error, at the first
\* candidate when not merging, or by falling through to the merge.
ScanLoop(k) ==
    IF k > Len(results) THEN [kind |-> "merge", idx |-> 0]
    ELSE IF results[k].Err # NilErr THEN [kind |-> "error", idx |-> k]
    ELSE IF ~merge THEN [kind |-> "write", idx |-> k]
    ELSE ScanLoop(k + 1)

\* Lines 111-123: the result loop after the join.
Scan ==
    /\ hpc = "scan"
    /\ LET s == ScanLoop(1) IN
        IF s.kind = "error"
        THEN /\ resp' = SetStatusCode(resp, results[s.idx].Code)
             /\ released' = Release(released, s.idx)
             /\ hpc' = "done"
             /\ UNCHANGED resReads
        ELSE IF s.kind = "write"
        THEN /\ resp' = writeResult(resp, results[s.idx].Res)
             /\ resReads' = resReads \cup {s.idx}
             /\ released' = Release(released, s.idx)
             /\ hpc' = "done"
        ELSE /\ hpc' = "mergeHeaders"
             /\ UNCHANGED <<resp, released, resReads>>
    /\ UNCHANGED <<filters, results, merge, spawnIdx, wg, tpc, spawned,
                   outreq, trace, doneOrder, rw, stops>>

\* Lines 126-128 for every candidate: the candidates with the headers of
\* MergeRemoveHeaders deleted from their responses.
StripAll(rs) ==
    [i \in 1..Len(rs) |->
        [rs[i] EXCEPT !.Res.header = HeaderDelAll(@, MergeRemoveHeaders)]]

RECURSIVE CopyAll(_, _, _)
\* Line 129 for the candidates from position k on: each candidate's headers
\* are copied into the caller-facing header in turn.
CopyAll(rs, k, h) ==
    IF k > Len(rs) THEN h
    ELSE CopyAll(rs, k + 1, HeaderCopyTo(rs[k].Res.header, h))

\* Lines 125-133: strip and copy the headers of every candidate, add the
\* merge content type and set the status to 200.
MergeHeaders ==
    /\ hpc = "mergeHeaders"
    /\ results' = StripAll(results)
    /\ resp' = SetStatusCode(
                  [resp EXCEPT !.header =
                      HeaderAdd(CopyAll(StripAll(results), 1, resp.header),
                                HeaderContentType, MergeContentType)],
                  StatusOK)
    /\ resReads' = resReads \cup Idx
    /\ hpc' = "mergeBody"
    /\ UNCHANGED <<filters, merge, spawnIdx, wg, tpc, spawned, outreq, trace,
                   released, doneOrder, rw, stops>>

\* A separator test that is off by one: a comma after the last member too.
NeedsCommaAfterLast(index, count) == index < count

\* Line 142: whether a comma follows the member at position index (0-based)
\* of count members.
NeedsComma(index, count) == index < count - 1

RECURSIVE WriteMembers(_, _)
\* Lines 137-147 from position k on: the bytes written for the members.
WriteMembers(rs, k) ==
    IF k > Len(rs) THEN <<>>
    ELSE <<"\"", rs[k].AttrName, "\":", rs[k].Res.body>>
         \o (IF NeedsComma(k - 1, Len(rs)) THEN <<",">> ELSE <<>>)
         \o WriteMembers(rs, k + 1)

\* Lines 135-149: write the merged object and release every candidate.
MergeBody ==
    /\ hpc = "mergeBody"
    /\ resp' = [resp EXCEPT !.body =
                    @ \o <<"{">> \o WriteMembers(results, 1) \o <<"}">>]
    /\ resReads' = resReads \cup Idx
    /\ released' = [i \in Idx |-> released[i] + 1]
    /\ hpc' = "done"
    /\ UNCHANGED <<filters, results, merge, spawnIdx, wg, tpc, spawned,
                   outreq, trace, doneOrder, rw, stops>>

\* ------------------------------------------------------------------ Spec

Next ==
    \/ Select
    \/ Spawn
    \/ Wait
    \/ InlineReturn
    \/ \E i \in Idx : doProxyEnter(i)
    \/ \E i \in Idx : doProxyPreFilters(i)
    \/ \E i \in Idx : doProxyBackendReturn(i)
    \/ \E i \in Idx : doProxyPostFilters(i)
    \/ Scan
    \/ MergeHeaders
    \/ MergeBody

Spec == Init /\ [][Next]_vars

\* The handler goroutine and every spawned goroutine keep being scheduled,
\* and the filters return; nothing is assumed about fastHTTPClient.Do
\* (line 201), which may block for ever.
LiveSpec ==
    /\ Spec
    /\ WF_vars(Select) /\ WF_vars(Spawn) /\ WF_vars(Wait)
    /\ WF_vars(InlineReturn)
    /\ WF_vars(Scan) /\ WF_vars(MergeHeaders) /\ WF_vars(MergeBody)
    /\ \A i \in 1..MaxCandidates :
          /\ WF_vars(i \in Idx /\ doProxyEnter(i))
          /\ WF_vars(i \in Idx /\ doProxyPreFilters(i))
          /\ WF_vars(i \in Idx /\ doProxyPostFilters(i))

\* --------------------------------------------------------------- typing

TypeOK ==
    /\ hpc \in {"select", "spawn", "wait", "inline", "scan", "mergeHeaders",
                "mergeBody", "done"}
    /\ wg \in 0..MaxCandidates
    /\ \A i \in Idx : tpc[i] \in {"idle", "start", "pre", "call", "post", "done"}

\* ============================================================ properties

\* The candidate has an error recorded (result.Err != nil).
HasError(i) == results[i].Err # NilErr

\* The candidate has a backend response recorded: a response object that
\* carries a backend status.
HasResponse(i) == results[i].Res.present /\ results[i].Res.status > 0

\* doProxy has returned for the candidate.
Returned(i) == tpc[i] = "done"

\* The candidate's backend answered with a status of 500 or more.
BackendServerError(i) ==
    HasResponse(i) /\ results[i].Res.status >= StatusInternalServerError

\* The candidate failed in some way of the error taxonomy: no server, a
\* filter stop, a transport failure (all three leave an error), or a backend
\* status of 500 or more.
Failed(i) == Returned(i) /\ (HasError(i) \/ BackendServerError(i))

\* The candidate succeeded: backend status below 500 and no filter stopped.
Succeeded(i) ==
    /\ Returned(i)
    /\ ~HasError(i)
    /\ HasResponse(i)
    /\ results[i].Res.status < StatusInternalServerError

HandlerDone == hpc = "done"

\* The handler is past the join of a fan-out.
PastJoin == hpc \in {"scan", "mergeHeaders", "mergeBody", "done"}

\* ------------------------------------------------------------------- C1
\* C1 (as claimed): in a fan-out, when the handler has returned, if any
\* candidate failed (no server, filter stop, transport failure or backend
\* status >= 500) the caller status is the code of a failing candidate, it
\* is not 200 and no body was written; the merged object with status 200 is
\* written only when every candidate succeeded.
C1_MergeAllOrNothing ==
    (HandlerDone /\ merge) =>
        IF \E i \in Idx : Failed(i)
        THEN /\ \E i \in Idx : Failed(i) /\ resp.status = results[i].Code
             /\ resp.status # StatusOK
             /\ resp.body = <<>>
        ELSE /\ resp.status = StatusOK
             /\ resp.body # <<>>

\* ------------------------------------------------------------------- C2
\* C2 (as claimed): when the handler has returned for a request with at
\* least one candidate, every candidate has been released exactly once.
C2_ReleasedExactlyOnce ==
    (HandlerDone /\ Len(results) >= 1) => \A i \in Idx : released[i] = 1

\* ------------------------------------------------------------------- C3
\* The lowest position of a candidate with an error recorded.
FirstErroring == CHOOSE i \in Idx : HasError(i) /\ \A j \in 1..(i - 1) : ~HasError(j)

\* C3: in a fan-out where candidates ended with an error recorded, the
\* status written to the caller is the code of the erroring candidate with
\* the lowest position in the resolver's order, whatever the order in which
\* the tasks returned; it is the only status written and no body follows.
C3_FirstInOrderErrorWins ==
    (HandlerDone /\ merge /\ \E i \in Idx : HasError(i)) =>
        /\ resp.status = results[FirstErroring].Code
        /\ resp.statusSets = 1
        /\ resp.body = <<>>

\* C3 witness: both candidates of a fan-out ended with an error, with
\* different codes, and the second one's task returned first.
C3_Witness ==
    /\ HandlerDone /\ merge
    /\ HasError(1) /\ HasError(2)
    /\ results[1].Code # results[2].Code
    /\ doneOrder[1] = 2
    /\ resp.status = results[1].Code

\* ------------------------------------------------------------------- C4
\* C4: in a fan-out, whenever the handler is past the join, or anything was
\* written to the caller or any candidate released, every dispatcher task
\* has returned with its own outcome recorded, and every candidate with a
\* server went through its own pre-filter phase: no task was cancelled or
\* skipped because a sibling failed.
C4_JoinBeforeInspect ==
    (merge /\ (PastJoin \/ resp # NewResponse \/ \E i \in Idx : released[i] > 0)) =>
        \A i \in Idx :
            /\ Returned(i)
            /\ spawned[i]
            /\ HasError(i) \/ results[i].Res.present
            /\ results[i].Svr => Len(trace[i]) >= 1 /\ trace[i][1] = "pre"

\* C4 witness: the handler answered a fan-out in which the task that
\* returned first had failed and a task that returned after it still ran to
\* a successful backend response.
C4_Witness ==
    /\ HandlerDone /\ merge
    /\ HasError(doneOrder[1])
    /\ Succeeded(doneOrder[2])
    /\ resp.status = results[doneOrder[1]].Code

\* ------------------------------------------------------------------- C5
\* C5: when every candidate of a fan-out of n succeeded, the caller status is
\* 200 and the body is "{", then for each candidate in the resolver's order
\* a quote, its attribution name, quote-colon and its raw backend body, with
\* one comma between members and none after the last, then "}"; for the
\* candidates a and b with bodies {"x":1} and {"y":2} it is
\* {"a":{"x":1},"b":{"y":2}}.
C5_MergedBody ==
    (HandlerDone /\ merge /\ \A i \in Idx : Succeeded(i)) =>
        LET n == Len(results)
            b == resp.body
        IN  /\ resp.status = StatusOK
            /\ Len(b) = 5 * n + 1
            /\ b[1] = "{"
            /\ b[5 * n + 1] = "}"
            /\ \A i \in 1..n :
                /\ b[5 * i - 3] = "\""
                /\ b[5 * i - 2] = AttrNames[i]
                /\ b[5 * i - 1] = "\":"
                /\ b[5 * i] = Bodies[i]
                /\ i < n => b[5 * i + 1] = ","
            /\ n = 2 => b = <<"{", "\"", "a", "\":", "{\"x\":1}", ",",
                               "\"", "b", "\":", "{\"y\":2}", "}">>

\* C5 witness: a merged body was written for a fan-out whose second
\* candidate's task returned before the first one's.
C5_Witness ==
    /\ HandlerDone /\ merge
    /\ \A i \in Idx : Succeeded(i)
    /\ doneOrder[1] = 2
    /\ resp.body # <<>>

\* ------------------------------------------------------------------- C6
\* The entries of a header collection.
Entries(h) == { h[k] : k \in 1..Len(h) }

\* The headers candidate i's backend sent, without content-length,
\* content-type and date.
KeptHeaders(i) ==
    { e \in Entries(BackendHeaders(i)) :
        e[1] \notin {"Content-Length", "Content-Type", "Date"} }

\* C6 (as claimed): on the successful-merge path the caller's headers are the
\* union of every candidate's backend headers without content-length,
\* content-type and date, plus exactly one content-type header with the
\* merge content type; no content-length or date header appears.
C6_MergedHeaders ==
    (HandlerDone /\ merge /\ \A i \in Idx : Succeeded(i)) =>
        /\ Entries(resp.header) =
              UNION { KeptHeaders(i) : i \in Idx }
              \cup { <<HeaderContentType, MergeContentType>> }
        /\ Cardinality({ k \in 1..Len(resp.header) :
                           resp.header[k][1] = HeaderContentType }) = 1
        /\ \A e \in Entries(resp.header) : e[1] \notin {"Content-Length", "Date"}

\* ------------------------------------------------------------------- C7
\* C7: with a single candidate the coordinator never sets the merge flag,
\* spawns no task and uses no WaitGroup: doProxy runs inside the handler's
\* call; when the backend answered below 500 and no filter stopped, the
\* caller status is the backend's status, the body is the backend's body
\* alone and no header (hence no merge content type) is set.
C7_SinglePassthrough ==
    Len(results) = 1 =>
        /\ ~merge /\ ~results[1].Merge
        /\ ~spawned[1] /\ wg = 0
        /\ ~Returned(1) => hpc = "inline"
        /\ (HandlerDone /\ Succeeded(1)) =>
              /\ resp.status = results[1].Res.status
              /\ resp.statusSets = 1
              /\ resp.body = <<Bodies[1]>>
              /\ resp.header = <<>>

\* C7 witness: a single candidate whose backend answered 404 was passed
\* through.
C7_Witness ==
    /\ HandlerDone /\ Len(results) = 1
    /\ Succeeded(1)
    /\ results[1].Res.status = 404
    /\ resp.status = 404
    /\ resp.body = <<Bodies[1]>>

\* ------------------------------------------------------------------- C8
\* C8 (as claimed): with a single candidate that failed in any way of the
\* taxonomy, the caller status is the candidate's recorded code and no body
\* is written.
C8_SingleFailure ==
    (HandlerDone /\ Len(results) = 1 /\ Failed(1)) =>
        /\ resp.status = results[1].Code
        /\ resp.body = <<>>

\* ------------------------------------------------------------------- C9
\* C9 (as claimed): after doProxy returned for a candidate whose backend call
\* failed with a transport error or answered 500 or more, the candidate has
\* an error recorded, and its code is the backend status in the second case
\* and 503 in the first.
C9_BackendFailureClassified ==
    \A i \in Idx :
        Returned(i) =>
            /\ BackendServerError(i) =>
                  HasError(i) /\ results[i].Code = results[i].Res.status
            /\ results[i].Err \in TransportErrors =>
                  results[i].Code = StatusServiceUnavailable

\* ------------------------------------------------------------------ C10
\* C10 (as claimed): whenever doProxy has returned, the candidate carries
\* either a backend response and no error, or an error with a status code
\* and no backend response.
C10_ExclusiveOutcome ==
    \A i \in Idx :
        Returned(i) =>
            \/ HasResponse(i) /\ ~HasError(i)
            \/ HasError(i) /\ results[i].Code > 0 /\ ~HasResponse(i)

\* doProxy returned for candidate i by a stop of a post filter.
PostFilterStopped(i) ==
    /\ Returned(i)
    /\ trace[i] = <<"pre", "call", "post">>
    /\ results[i].Err = FilterErr

\* C10 (amended): whenever doProxy has returned, the candidate carries a
\* backend response or an error, never neither; an error always comes with a
\* non-zero status code; and it carries both exactly when a post filter
\* stopped the chain, where the backend response stays recorded next to the
\* filter's error.
C10_OutcomeRecorded ==
    \A i \in Idx :
        Returned(i) =>
            /\ HasResponse(i) \/ HasError(i)
            /\ HasError(i) => results[i].Code > 0
            /\ (HasResponse(i) /\ HasError(i)) <=> PostFilterStopped(i)

\* C10 witness: a candidate whose post filter stopped the chain carries the
\* backend response and the filter's error.
C10_Witness ==
    \E i \in Idx :
        /\ PostFilterStopped(i)
        /\ HasResponse(i) /\ HasError(i)
        /\ results[i].Code \in FilterCodes

\* ------------------------------------------------------------------ C11
\* How many times a phase occurs in a candidate's trace.
Count(i, phase) == Cardinality({ k \in 1..Len(trace[i]) : trace[i][k] = phase })

\* C11: once a pre filter has stopped the chain for a candidate, doProxy has
\* returned for it, the backend was never called (no call in flight, none
\* returned, no response object stored), no post and no post-error filter
\* ran, and the candidate's error and code are those the stopping filter
\* returned.
C11_PreFilterShortCircuit ==
    \A i \in Idx :
        stops[i].phase = "pre" =>
            /\ Returned(i)
            /\ trace[i] = <<"pre">>
            /\ Count(i, "call") = 0
            /\ Count(i, "post") = 0 /\ Count(i, "posterr") = 0
            /\ ~results[i].Res.present
            /\ results[i].Err = stops[i].err
            /\ results[i].Code = stops[i].code

\* C11 witness: the second filter of the chain stopped a candidate in the
\* pre phase with 429, and the handler has answered.
C11_Witness ==
    /\ HandlerDone
    /\ \E i \in Idx :
        /\ stops[i].phase = "pre"
        /\ stops[i].name = "analysis"
        /\ stops[i].code = 429
        /\ results[i].Code = 429
        /\ results[i].Err = FilterErr

\* ------------------------------------------------------------------ C12
\* C12: for a candidate whose backend call failed, the post-error filters
\* ran exactly once when the failure is a backend status of 500 or more or a
\* transport error that does not start with "request canceled" (also one
\* that only contains it), and not at all when the transport error starts
\* with "request canceled"; the recorded code is the backend status in the
\* first case and 503 for any transport error, cancelled or not.
C12_PostErrGating ==
    \A i \in Idx :
        Returned(i) =>
            /\ BackendServerError(i) =>
                  /\ Count(i, "posterr") = 1
                  /\ results[i].Code = results[i].Res.status
            /\ results[i].Err \in TransportErrors =>
                  /\ results[i].Code = StatusServiceUnavailable
                  /\ Count(i, "posterr") =
                        IF results[i].Err[1] = "request canceled" THEN 0 ELSE 1
            /\ Count(i, "posterr") = 1 =>
                  BackendServerError(i) \/ results[i].Err \in TransportErrors

\* C12 witness: in one fan-out, the first candidate's call was cancelled and
\* no post-error filter ran for it, the second candidate's call failed with
\* an error that only contains the cancellation text and they ran once.
C12_Witness ==
    /\ merge
    /\ Returned(1) /\ Returned(2)
    /\ results[1].Err = <<"request canceled", " while waiting for connection">>
    /\ trace[1] = <<"pre", "call">>
    /\ results[2].Err = <<"upstream: ", "request canceled">>
    /\ trace[2] = <<"pre", "call", "posterr">>
    /\ results[1].Code = 503 /\ results[2].Code = 503

\* ------------------------------------------------------------------ C13
\* doProxy is running for the candidate, past the URL change.
Dispatching(i) == tpc[i] \in {"pre", "call", "post"}

\* C13 (as claimed): for a candidate with a server, when the rewrite yields a
\* non-empty replacement the outbound URI is the replacement and the host
\* the server's address; in every other case (no rewrite needed, or needed
\* with an empty replacement) only the path is replaced by the target's path
\* and the query string is the inbound one.
C13_OutboundRewrite ==
    \A i \in Idx :
        (results[i].Svr /\ Dispatching(i)) =>
            IF rw[i].need /\ rw[i].realPath # ""
            THEN /\ outreq[i].uri = rw[i].realPath
                 /\ outreq[i].host = SvrAddr
            ELSE /\ outreq[i].path = NodeURLs[i]
                 /\ outreq[i].query = InboundQuery
                 /\ outreq[i].uri = ""
                 /\ outreq[i].host = InboundHost

\* ------------------------------------------------------------------ C14
\* C14: on every path the caller-facing status code is set at most once
\* while the handler runs and exactly once when it has returned (zero
\* candidates, single candidate, fail-fast, merge); every step that changes
\* the caller-facing response is a step of the handler, and no step of a
\* dispatcher changes its status, headers or body.
C14_WriteDiscipline ==
    /\ [](resp.statusSets <= 1 /\ (HandlerDone => resp.statusSets = 1))
    /\ [][resp' # resp => hpc' # hpc]_vars
    /\ [][(\E i \in Idx : tpc'[i] # tpc[i]) => resp' = resp]_vars

\* C14 witness: a fan-out with a candidate without a server was answered,
\* the status having been set once, after every dispatcher returned.
C14_Witness ==
    /\ HandlerDone /\ merge
    /\ \E i \in Idx : ~results[i].Svr
    /\ \A i \in Idx : Returned(i)
    /\ resp.statusSets = 1
    /\ resp.status = StatusServiceUnavailable

\* ------------------------------------------------------------------ C15
\* C15: when the resolver returned no candidate, the handler has returned
\* with status 503 set once, no header and no body written, and no
\* dispatcher, filter or backend call ever ran: there is no task, no trace,
\* no completion, no response read, no release and the WaitGroup is unused.
C15_ZeroCandidates ==
    (hpc # "select" /\ Len(results) = 0) =>
        /\ HandlerDone
        /\ resp = [status |-> StatusServiceUnavailable, statusSets |-> 1,
                   header |-> <<>>, body |-> <<>>]
        /\ tpc = <<>> /\ trace = <<>> /\ stops = <<>> /\ outreq = <<>>
        /\ doneOrder = <<>> /\ released = <<>> /\ resReads = {}
        /\ wg = 0 /\ ~merge

\* C15 witness: the handler answered a request without candidates.
C15_Witness ==
    /\ HandlerDone
    /\ Len(results) = 0
    /\ resp.status = StatusServiceUnavailable
    /\ resp.body = <<>>

\* ------------------------------------------------------------------ C16
\* C16: once a post filter has stopped the chain for a candidate whose
\* backend answered below 500, doProxy has returned with the filter's error
\* and code recorded; the handler never reads that candidate's response,
\* and when it has returned it wrote no body and no header and the status of
\* the first erroring candidate: the filter's code for a single candidate,
\* and for a fan-out whenever no earlier candidate has an error.
C16_PostFilterStop ==
    \A i \in Idx :
        stops[i].phase = "post" =>
            /\ Returned(i)
            /\ HasResponse(i)
            /\ results[i].Res.status < StatusInternalServerError
            /\ results[i].Err = stops[i].err
            /\ results[i].Code = stops[i].code
            /\ i \notin resReads
            /\ HandlerDone =>
                  /\ resp.body = <<>>
                  /\ resp.header = <<>>
                  /\ resp.status = results[FirstErroring].Code
                  /\ (\A j \in 1..(i - 1) : ~HasError(j)) =>
                        resp.status = stops[i].code

\* C16 witness: in a fan-out the first candidate succeeded, a post filter
\* stopped the second after its backend answered 200, and the caller got
\* the filter's code and no body.
C16_Witness ==
    /\ HandlerDone /\ merge
    /\ Succeeded(1)
    /\ stops[2].phase = "post"
    /\ results[2].Res.status = 200
    /\ resp.status = stops[2].code
    /\ resp.body = <<>>

\* ------------------------------------------------------------------ C17
\* The candidates whose doProxy has returned.
ReturnedSet == { i \in Idx : Returned(i) }

\* C17: for a candidate without a server doProxy never builds an outbound
\* request or takes a rewrite decision, never runs a pre, post or post-error
\* filter and never calls the backend; when it has returned, the candidate
\* carries ErrNoServer and 503; and in a fan-out the WaitGroup counter is
\* the number of tasks that have not returned, so the task of a candidate
\* without a server has signalled the join as well.
C17_NoServer ==
    /\ \A i \in Idx :
        ~results[i].Svr =>
            /\ tpc[i] \in {"idle", "start", "done"}
            /\ outreq[i] = NoRequest /\ rw[i] = NoRewrite
            /\ trace[i] = <<>> /\ stops[i] = NoStop
            /\ ~results[i].Res.present
            /\ IF Returned(i)
               THEN /\ results[i].Err = ErrNoServer
                    /\ results[i].Code = StatusServiceUnavailable
               ELSE /\ results[i].Err = NilErr
                    /\ results[i].Code = 0
    /\ merge => wg = Len(results) - Cardinality(ReturnedSet)

\* C17 witness: a fan-out whose first candidate has no server was answered:
\* that candidate carries ErrNoServer/503, its sibling ran its backend call
\* and the join was passed with the counter at zero.
C17_Witness ==
    /\ HandlerDone /\ merge
    /\ ~results[1].Svr /\ results[2].Svr
    /\ results[1].Err = ErrNoServer /\ results[1].Code = 503
    /\ Count(2, "call") = 1
    /\ wg = 0
    /\ resp.status = 503

\* ------------------------------------------------------------------ C18
\* C18: a candidate's phases run in the order pre, call, then at most one
\* of post and post-error, each at most once; the backend call is in flight
\* only after the pre filters completed and the post filters are pending
\* only after the call returned; the post filters ran only after a backend
\* response below 500 without transport error, the post-error filters only
\* after a backend status of 500 or more or a transport error.
C18_PhaseOrdering ==
    \A i \in Idx :
        /\ trace[i] \in { <<>>, <<"pre">>, <<"pre", "call">>,
                          <<"pre", "call", "post">>,
                          <<"pre", "call", "posterr">> }
        /\ tpc[i] = "call" => trace[i] = <<"pre">>
        /\ tpc[i] = "post" => trace[i] = <<"pre", "call">>
        /\ Count(i, "post") = 1 =>
              /\ HasResponse(i)
              /\ results[i].Res.status < StatusInternalServerError
              /\ results[i].Err \notin TransportErrors
        /\ Count(i, "posterr") = 1 =>
              BackendServerError(i) \/ results[i].Err \in TransportErrors

\* C18 witness: in one fan-out the first candidate went through pre, call
\* and post, the second through pre, call and post-error.
C18_Witness ==
    /\ merge
    /\ Returned(1) /\ Returned(2)
    /\ trace[1] = <<"pre", "call", "post">>
    /\ trace[2] = <<"pre", "call", "posterr">>

\* ------------------------------------------------------------------ C19
\* Candidate i is inside its backend call.
InCall(i) == i \in Idx /\ tpc[i] = "call"

\* C19: in a fan-out the barrier counter is the number of tasks that have
\* not returned yet and is never negative; every return of doProxy lowers
\* it by exactly one and a returned task never returns again; if every
\* backend call returns, the handler eventually writes its response; if a
\* backend call of a fan-out never returns, the handler never passes the
\* join.
C19_JoinLiveness ==
    /\ [](/\ wg >= 0
          /\ merge => wg = Cardinality({ i \in Idx : ~Returned(i) }))
    /\ [][\A i \in Idx :
            /\ tpc[i] = "done" => tpc'[i] = "done"
            /\ (merge /\ tpc[i] # "done" /\ tpc'[i] = "done") =>
                  wg' = wg - 1]_vars
    /\ [][wg' < wg =>
            \E i \in Idx : tpc[i] # "done" /\ tpc'[i] = "done"]_vars
    /\ (\A i \in 1..MaxCandidates : []<>(~InCall(i))) => <>HandlerDone
    /\ \A i \in 1..MaxCandidates :
          <>[](merge /\ InCall(i)) => [](~PastJoin)

\* C19 witness: a fan-out was answered after its two tasks left doProxy by
\* different return paths (a pre-filter stop and a completed call), the
\* second spawned task first, and the counter is back at zero.
C19_Witness ==
    /\ HandlerDone /\ merge /\ wg = 0
    /\ doneOrder = <<2, 1>>
    /\ stops[2].phase = "pre"
    /\ Count(1, "post") = 1

\* ------------------------------------------------------------------ C20
\* C20: every candidate whose backend response the handler read (in
\* writeResult or in the merge loops) has a server, made its backend call
\* exactly once, holds the response of that call and carries no error; no
\* candidate that ended with no server, a pre-filter stop or a transport
\* error is ever read.
C20_ReadOnlyPresent ==
    \A i \in resReads :
        /\ i \in Idx
        /\ Returned(i)
        /\ results[i].Svr
        /\ Count(i, "call") = 1
        /\ results[i].Res.present
        /\ results[i].Err = NilErr
        /\ stops[i].phase = "none"

\* C20 witness: a single candidate was passed through by writeResult after
\* filters had run and its backend had answered 404.
C20_Witness ==
    /\ HandlerDone /\ ~merge
    /\ resReads = {1}
    /\ filters # <<>>
    /\ results[1].Res.status = 404
    /\ resp.status = 404

====
